---- MODULE Spec2Model ----
(***************************************************************************)
(* Model of src/src/util/Axios.ts: the AxiosClient class.                  *)
(*                                                                         *)
(* Strings that the code inspects (proxy URLs, credentials, error          *)
(* messages) are tuples of one-character strings, so that the regular      *)
(* expressions, the URL parser, the URL setters and the serializer are     *)
(* computed character by character.  Strings that the code only compares   *)
(* with === (error codes) or passes through (request configs, responses)   *)
(* are TLA+ strings.                                                       *)
(***************************************************************************)
EXTENDS Integers, Sequences, FiniteSets, TLC

VARIABLES
    clientState,   \* "none" before `new AxiosClient(account)`, then "ready" or "threw"
    account,       \* this.account
    instance,      \* this.instance: its defaults (proxy, httpAgent, httpsAgent)
    ctorError,     \* the error thrown by the constructor, if any
    resolverCalls, \* number of invocations of getAgentForProxy
    resolved,      \* what the last invocation of getAgentForProxy computed
    calls          \* the request(config, bypassProxy) calls, by call id

vars == <<clientState, account, instance, ctorError, resolverCalls, resolved, calls>>

-----------------------------------------------------------------------------
(* Bounds *)

\* number of request() calls that may be in flight on the one client
MaxCalls == 2

CallIds == 1..MaxCalls

-----------------------------------------------------------------------------
(* Characters and strings *)

\* JavaScript `undefined` for a string-valued field
Undefined == <<"undefined">>

UpperChars == <<"A","B","C","D","E","F","G","H","I","J","K","L","M",
                "N","O","P","Q","R","S","T","U","V","W","X","Y","Z">>
LowerChars == <<"a","b","c","d","e","f","g","h","i","j","k","l","m",
                "n","o","p","q","r","s","t","u","v","w","x","y","z">>
DigitChars == <<"0","1","2","3","4","5","6","7","8","9">>

Range(s) == { s[i] : i \in DOMAIN s }

IsAlpha(c) == c \in Range(UpperChars) \cup Range(LowerChars)
IsDigit(c) == c \in Range(DigitChars)

ToLowerChar(c) ==
    IF c \in Range(UpperChars)
    THEN LowerChars[CHOOSE i \in DOMAIN UpperChars : UpperChars[i] = c]
    ELSE c

ToLower(s) == [i \in DOMAIN s |-> ToLowerChar(s[i])]

\* s.startsWith(p)
StartsWith(s, p) == Len(s) >= Len(p) /\ SubSeq(s, 1, Len(p)) = p

\* p occurs in s as a substring
Contains(s, p) ==
    \E i \in 1..(Len(s) - Len(p) + 1) : SubSeq(s, i, i + Len(p) - 1) = p

\* index of the first / last character of s that is in set cs, 0 if none
FirstIndexOf(s, cs) ==
    IF \E i \in DOMAIN s : s[i] \in cs
    THEN CHOOSE i \in DOMAIN s : s[i] \in cs /\ \A j \in 1..(i-1) : s[j] \notin cs
    ELSE 0

LastIndexOf(s, cs) ==
    IF \E i \in DOMAIN s : s[i] \in cs
    THEN CHOOSE i \in DOMAIN s : s[i] \in cs /\ \A j \in (i+1)..Len(s) : s[j] \notin cs
    ELSE 0

\* value of a digit character
DigitValue(c) == (CHOOSE i \in DOMAIN DigitChars : DigitChars[i] = c) - 1

\* decimal digits -> number (the URL parser's port buffer)
RECURSIVE FromDigits(_)
FromDigits(s) ==
    IF Len(s) = 0 THEN 0
    ELSE 10 * FromDigits(SubSeq(s, 1, Len(s) - 1)) + DigitValue(s[Len(s)])

\* String(n) for a non-negative integer n
RECURSIVE ToDigits(_)
ToDigits(n) ==
    IF n < 10 THEN <<DigitChars[n + 1]>>
    ELSE ToDigits(n \div 10) \o <<DigitChars[(n % 10) + 1]>>

-----------------------------------------------------------------------------
(* URL: the parts of `new URL(...)`, its setters and toString() that the   *)
(* resolver uses.  Hosts are domain names or dotted quads; IPv6 literals,  *)
(* file: URLs and non-ASCII hosts are outside the modelled inputs.         *)

\* JavaScript `undefined` for the numeric port field of the descriptor, and the
\* URL record's "no port" (parsed.port === '')
NoPort == 0 - 1

HttpScheme  == <<"h","t","t","p">>
HttpsScheme == <<"h","t","t","p","s">>
FtpScheme   == <<"f","t","p">>
WsScheme    == <<"w","s">>
WssScheme   == <<"w","s","s">>
SocksPrefix == <<"s","o","c","k","s">>

SpecialSchemes == {HttpScheme, HttpsScheme, FtpScheme, WsScheme, WssScheme}

DefaultPort(scheme) ==
    CASE scheme = HttpScheme  -> 80
      [] scheme = HttpsScheme -> 443
      [] scheme = FtpScheme   -> 21
      [] scheme = WsScheme    -> 80
      [] scheme = WssScheme   -> 443
      [] OTHER                -> NoPort

IsSchemeChar(c) == IsAlpha(c) \/ IsDigit(c) \/ c \in {"+", ".", "-"}

\* faulty variant: the scheme pattern admits letters only, /^[a-zA-Z]+:\/\//
HasSchemePrefix_LettersOnly(url) ==
    \E k \in 1..Len(url) :
        /\ \A j \in 1..k : IsAlpha(url[j])
        /\ Len(url) >= k + 3
        /\ SubSeq(url, k + 1, k + 3) = <<":", "/", "/">>

\* /^[a-zA-Z][a-zA-Z0-9+.-]*:\/\//.test(url)
HasSchemePrefix(url) ==
    \E k \in 1..Len(url) :
        /\ IsAlpha(url[1])
        /\ \A j \in 2..k : IsSchemeChar(url[j])
        /\ Len(url) >= k + 3
        /\ SubSeq(url, k + 1, k + 3) = <<":", "/", "/">>

\* the code points a URL host may not contain
ForbiddenHostChars ==
    {" ", "#", "/", ":", "<", ">", "?", "@", "[", "\\", "]", "^", "|", "%"}

\* the userinfo percent-encode set (the members the modelled inputs use)
PercentEncodeChar(c) ==
    CASE c = "@" -> <<"%","4","0">>
      [] c = ":" -> <<"%","3","A">>
      [] c = "/" -> <<"%","2","F">>
      [] c = " " -> <<"%","2","0">>
      [] c = "#" -> <<"%","2","3">>
      [] c = "?" -> <<"%","3","F">>
      [] OTHER   -> <<c>>

RECURSIVE PercentEncode(_)
PercentEncode(s) ==
    IF Len(s) = 0 THEN <<>>
    ELSE PercentEncodeChar(Head(s)) \o PercentEncode(Tail(s))

InvalidURL == [ok |-> FALSE, protocol |-> <<>>, username |-> <<>>, password |-> <<>>,
               hostname |-> <<>>, port |-> NoPort, pathname |-> <<>>]

\* the scheme of a string that starts with "scheme://", lower-cased
UrlScheme(s) == ToLower(SubSeq(s, 1, FirstIndexOf(s, {":"}) - 1))

IsSpecial(scheme) == scheme \in SpecialSchemes

\* the characters that end the authority: a special scheme takes "\" for "/"
Slashes(scheme) == IF IsSpecial(scheme) THEN {"/", "\\"} ELSE {"/"}

\* number of leading characters of s that are in set cs
LeadingIn(s, cs) ==
    IF \E i \in DOMAIN s : s[i] \notin cs
    THEN (CHOOSE i \in DOMAIN s : s[i] \notin cs /\ \A j \in 1..(i-1) : s[j] \in cs) - 1
    ELSE Len(s)

\* what follows "scheme:" and the slashes: a special scheme skips every leading
\* slash, any other scheme takes exactly "//"
UrlAfterSlashes(s) ==
    LET afterCol == SubSeq(s, FirstIndexOf(s, {":"}) + 1, Len(s))
    IN  IF IsSpecial(UrlScheme(s))
        THEN SubSeq(afterCol, LeadingIn(afterCol, Slashes(UrlScheme(s))) + 1, Len(afterCol))
        ELSE SubSeq(afterCol, 3, Len(afterCol))

\* s up to the first character in cs (all of s if none) / from that character on
Before(s, cs) ==
    IF FirstIndexOf(s, cs) = 0 THEN s ELSE SubSeq(s, 1, FirstIndexOf(s, cs) - 1)
From(s, cs) ==
    IF FirstIndexOf(s, cs) = 0 THEN <<>> ELSE SubSeq(s, FirstIndexOf(s, cs), Len(s))

UrlAuthority(s) == Before(UrlAfterSlashes(s), Slashes(UrlScheme(s)) \cup {"?", "#"})
UrlTail(s)      == From(UrlAfterSlashes(s), Slashes(UrlScheme(s)) \cup {"?", "#"})

\* the authority is [credentials "@"] host [":" port]; the last "@" ends the
\* credentials, the first ":" in them ends the username
AuthCred(auth)     == SubSeq(auth, 1, LastIndexOf(auth, {"@"}) - 1)
AuthHostPort(auth) == SubSeq(auth, LastIndexOf(auth, {"@"}) + 1, Len(auth))
CredUser(cred)     == Before(cred, {":"})
CredPass(cred) ==
    IF FirstIndexOf(cred, {":"}) = 0 THEN <<>>
    ELSE SubSeq(cred, FirstIndexOf(cred, {":"}) + 1, Len(cred))
HostOf(hostport) ==
    IF LastIndexOf(hostport, {":"}) = 0 THEN hostport
    ELSE SubSeq(hostport, 1, LastIndexOf(hostport, {":"}) - 1)
PortOf(hostport) ==
    IF LastIndexOf(hostport, {":"}) = 0 THEN <<>>
    ELSE SubSeq(hostport, LastIndexOf(hostport, {":"}) + 1, Len(hostport))

\* a port buffer the parser accepts: digits, at most 65535
PortOk(portChars) ==
    /\ \A i \in DOMAIN portChars : IsDigit(portChars[i])
    /\ Len(portChars) <= 5
    /\ (Len(portChars) > 0 => FromDigits(portChars) <= 65535)

PortNumber(scheme, portChars) ==
    IF Len(portChars) = 0 \/ FromDigits(portChars) = DefaultPort(scheme)
    THEN NoPort
    ELSE FromDigits(portChars)

UrlFails(scheme, auth) ==
    \/ (IsSpecial(scheme) /\ Len(HostOf(AuthHostPort(auth))) = 0)
    \/ /\ Len(HostOf(AuthHostPort(auth))) = 0
       /\ (LastIndexOf(auth, {"@"}) > 0 \/ LastIndexOf(AuthHostPort(auth), {":"}) > 0)
    \/ \E i \in DOMAIN HostOf(AuthHostPort(auth)) :
           HostOf(AuthHostPort(auth))[i] \in ForbiddenHostChars
    \/ ~PortOk(PortOf(AuthHostPort(auth)))

UrlRecord(scheme, auth, tail) ==
    [ok       |-> TRUE,
     protocol |-> scheme \o <<":">>,
     username |-> PercentEncode(CredUser(AuthCred(auth))),
     password |-> PercentEncode(CredPass(AuthCred(auth))),
     hostname |-> IF IsSpecial(scheme) THEN ToLower(HostOf(AuthHostPort(auth)))
                  ELSE HostOf(AuthHostPort(auth)),
     port     |-> PortNumber(scheme, PortOf(AuthHostPort(auth))),
     pathname |-> IF IsSpecial(scheme) /\ Len(tail) = 0 THEN <<"/">> ELSE tail]

\* new URL(s), for a string s that starts with "scheme://"
ParseURL(s) ==
    IF UrlFails(UrlScheme(s), UrlAuthority(s))
    THEN InvalidURL
    ELSE UrlRecord(UrlScheme(s), UrlAuthority(s), UrlTail(s))

SchemeOf(u) == SubSeq(u.protocol, 1, Len(u.protocol) - 1)

\* parsed.port = value: the leading digits are taken; a value that is no port
\* leaves the URL as it was, the scheme's default port is stored as ''
SetPort(u, value) ==
    IF Len(u.hostname) = 0 THEN u
    ELSE IF Len(value) = 0 THEN [u EXCEPT !.port = NoPort]
    ELSE IF LeadingIn(value, Range(DigitChars)) = 0 THEN u
    ELSE IF ~PortOk(SubSeq(value, 1, LeadingIn(value, Range(DigitChars)))) THEN u
    ELSE [u EXCEPT !.port = PortNumber(SchemeOf(u),
                                       SubSeq(value, 1, LeadingIn(value, Range(DigitChars))))]

\* parsed.username = value / parsed.password = value
SetUsername(u, value) ==
    IF Len(u.hostname) = 0 THEN u ELSE [u EXCEPT !.username = PercentEncode(value)]

SetPassword(u, value) ==
    IF Len(u.hostname) = 0 THEN u ELSE [u EXCEPT !.password = PercentEncode(value)]

\* parsed.toString()
Serialize(u) ==
    u.protocol \o <<"/", "/">>
    \o (IF Len(u.username) > 0 \/ Len(u.password) > 0
        THEN u.username
             \o (IF Len(u.password) > 0 THEN <<":">> \o u.password ELSE <<>>)
             \o <<"@">>
        ELSE <<>>)
    \o u.hostname
    \o (IF u.port = NoPort THEN <<>> ELSE <<":">> \o ToDigits(u.port))
    \o u.pathname

-----------------------------------------------------------------------------
(* Agents and the HTTP client instance *)

\* no agent bound (defaults.httpAgent === undefined)
NoAgent == [kind |-> "undefined", proxy |-> <<>>, id |-> 0]

\* `new <kind>(proxyUrl)`: id tells the instances of one resolution apart
NewAgent(kind, proxyUrl, id) == [kind |-> kind, proxy |-> proxyUrl, id |-> id]

\* the protocols socks-proxy-agent accepts; its constructor throws on any other
SocksProtocols == { <<"s","o","c","k","s",":">>,
                    <<"s","o","c","k","s","4",":">>,
                    <<"s","o","c","k","s","4","a",":">>,
                    <<"s","o","c","k","s","5",":">>,
                    <<"s","o","c","k","s","5","h",":">> }

\* axios.create(): built-in proxy handling at its default, no agents
AxiosCreate == [proxy |-> "default", httpAgent |-> NoAgent, httpsAgent |-> NoAgent]

NoInstance == [proxy |-> "none", httpAgent |-> NoAgent, httpsAgent |-> NoAgent]

\* JavaScript truthiness of a string / a number that may be undefined
TruthyStr(s) == s # Undefined /\ Len(s) > 0
TruthyNum(n) == n # NoPort /\ n # 0

-----------------------------------------------------------------------------
(* getAgentForProxy *)

InvalidUrlMessage  == <<"I","n","v","a","l","i","d"," ","U","R","L">>
UnsupportedMessage == 
    <<"U","n","s","u","p","p","o","r","t","e","d"," ","p","r","o","x","y"," ","p","r","o","t","o","c","o","l",":"," ">>
SocksTypeMessage   == 
    <<"A"," ","\"","s","o","c","k","s","\""," ","p","r","o","t","o","c","o","l"," ","m","u","s","t"," ","b","e"," ","s","p","e","c","i","f","i","e","d","!"," ","G","o","t",":"," ">>

NoError == [name |-> "none", message |-> <<>>]

\* url = String(url || '')
CoerceUrl(url) == IF TruthyStr(url) THEN url ELSE <<>>

\* faulty variant: a bare host is given the scheme http
WithScheme_DefaultsToHttp(url) ==
    IF ~HasSchemePrefix(url) THEN HttpScheme \o <<":", "/", "/">> \o url ELSE url

\* if (!/^[a-zA-Z][a-zA-Z0-9+.-]*:\/\//.test(url)) url = `https://${url}`
WithScheme(url) ==
    IF ~HasSchemePrefix(url) THEN HttpsScheme \o <<":", "/", "/">> \o url ELSE url

\* faulty variant: the separate port only fills in a port the URL lacks
ApplyPort_OnlyWhenMissing(parsed, port) ==
    IF TruthyNum(port) /\ parsed.port = NoPort
    THEN SetPort(parsed, ToDigits(port))
    ELSE parsed

\* if (port) parsed.port = String(port)
ApplyPort(parsed, port) ==
    IF TruthyNum(port) THEN SetPort(parsed, ToDigits(port)) ELSE parsed

\* faulty variant: credentials are injected only when a password is set too
ApplyAuth_NeedsPassword(parsed, username, password) ==
    IF TruthyStr(username) /\ TruthyStr(password)
    THEN SetPassword(SetUsername(parsed, username), password)
    ELSE parsed

\* if (username && username.length) { parsed.username = ...; parsed.password = password || '' }
ApplyAuth(parsed, username, password) ==
    IF TruthyStr(username)
    THEN SetPassword(SetUsername(parsed, username),
                     IF TruthyStr(password) THEN password ELSE <<>>)
    ELSE parsed

\* faulty variant: the https: branch builds one agent and returns it twice
SelectAgents_OneHttpsAgent(protocol, proxyUrl) ==
    IF protocol = HttpScheme \o <<":">>
    THEN [threw |-> FALSE, error |-> NoError,
          httpAgent  |-> NewAgent("HttpProxyAgent", proxyUrl, 1),
          httpsAgent |-> NewAgent("HttpsProxyAgent", proxyUrl, 2)]
    ELSE IF protocol = HttpsScheme \o <<":">> \/ protocol \in SocksProtocols
    THEN LET one == NewAgent(IF protocol = HttpsScheme \o <<":">>
                             THEN "HttpsProxyAgent" ELSE "SocksProxyAgent", proxyUrl, 1)
         IN  [threw |-> FALSE, error |-> NoError, httpAgent |-> one, httpsAgent |-> one]
    ELSE [threw |-> TRUE,
          error |-> [name |-> "Error", message |-> UnsupportedMessage \o protocol],
          httpAgent |-> NoAgent, httpsAgent |-> NoAgent]

\* faulty variant: the final else with its throw is missing, so an unsupported
\* scheme falls through to the return with both agents undefined
SelectAgents_NoThrow(protocol, proxyUrl) ==
    IF protocol = HttpScheme \o <<":">>
    THEN [threw |-> FALSE, error |-> NoError,
          httpAgent  |-> NewAgent("HttpProxyAgent", proxyUrl, 1),
          httpsAgent |-> NewAgent("HttpsProxyAgent", proxyUrl, 2)]
    ELSE IF protocol = HttpsScheme \o <<":">>
    THEN [threw |-> FALSE, error |-> NoError,
          httpAgent  |-> NewAgent("HttpsProxyAgent", proxyUrl, 1),
          httpsAgent |-> NewAgent("HttpsProxyAgent", proxyUrl, 2)]
    ELSE IF protocol \in SocksProtocols
    THEN [threw |-> FALSE, error |-> NoError,
          httpAgent  |-> NewAgent("SocksProxyAgent", proxyUrl, 1),
          httpsAgent |-> NewAgent("SocksProxyAgent", proxyUrl, 1)]
    ELSE [threw |-> FALSE, error |-> NoError, httpAgent |-> NoAgent, httpsAgent |-> NoAgent]

\* faulty variant: the socks branch builds one agent per field
SelectAgents_TwoSocksAgents(protocol, proxyUrl) ==
    IF protocol = HttpScheme \o <<":">>
    THEN [threw |-> FALSE, error |-> NoError,
          httpAgent  |-> NewAgent("HttpProxyAgent", proxyUrl, 1),
          httpsAgent |-> NewAgent("HttpsProxyAgent", proxyUrl, 2)]
    ELSE IF protocol = HttpsScheme \o <<":">>
    THEN [threw |-> FALSE, error |-> NoError,
          httpAgent  |-> NewAgent("HttpsProxyAgent", proxyUrl, 1),
          httpsAgent |-> NewAgent("HttpsProxyAgent", proxyUrl, 2)]
    ELSE IF protocol \in SocksProtocols
    THEN [threw |-> FALSE, error |-> NoError,
          httpAgent  |-> NewAgent("SocksProxyAgent", proxyUrl, 1),
          httpsAgent |-> NewAgent("SocksProxyAgent", proxyUrl, 2)]
    ELSE [threw |-> TRUE,
          error |-> [name |-> "Error", message |-> UnsupportedMessage \o protocol],
          httpAgent |-> NoAgent, httpsAgent |-> NoAgent]

\* faulty variant: the http: branch is a copy of the https: branch
SelectAgents_HttpsAgentsForHttp(protocol, proxyUrl) ==
    IF protocol \in {HttpScheme \o <<":">>, HttpsScheme \o <<":">>}
    THEN [threw |-> FALSE, error |-> NoError,
          httpAgent  |-> NewAgent("HttpsProxyAgent", proxyUrl, 1),
          httpsAgent |-> NewAgent("HttpsProxyAgent", proxyUrl, 2)]
    ELSE IF protocol \in SocksProtocols
    THEN [threw |-> FALSE, error |-> NoError,
          httpAgent  |-> NewAgent("SocksProxyAgent", proxyUrl, 1),
          httpsAgent |-> NewAgent("SocksProxyAgent", proxyUrl, 1)]
    ELSE [threw |-> TRUE,
          error |-> [name |-> "Error", message |-> UnsupportedMessage \o protocol],
          httpAgent |-> NoAgent, httpsAgent |-> NoAgent]

\* the branch on parsed.protocol that builds the agent pair, or throws
SelectAgents(protocol, proxyUrl) ==
    IF protocol = HttpScheme \o <<":">>
    THEN [threw |-> FALSE, error |-> NoError,
          httpAgent  |-> NewAgent("HttpProxyAgent", proxyUrl, 1),
          httpsAgent |-> NewAgent("HttpsProxyAgent", proxyUrl, 2)]
    ELSE IF protocol = HttpsScheme \o <<":">>
    THEN [threw |-> FALSE, error |-> NoError,
          httpAgent  |-> NewAgent("HttpsProxyAgent", proxyUrl, 1),
          httpsAgent |-> NewAgent("HttpsProxyAgent", proxyUrl, 2)]
    ELSE IF StartsWith(protocol, SocksPrefix)
    THEN IF protocol \in SocksProtocols
         THEN LET sa == NewAgent("SocksProxyAgent", proxyUrl, 1)
              IN  [threw |-> FALSE, error |-> NoError, httpAgent |-> sa, httpsAgent |-> sa]
         ELSE [threw |-> TRUE,
               error |-> [name |-> "TypeError", message |-> SocksTypeMessage \o protocol],
               httpAgent |-> NoAgent, httpsAgent |-> NoAgent]
    ELSE [threw |-> TRUE,
          error |-> [name |-> "Error", message |-> UnsupportedMessage \o protocol],
          httpAgent |-> NoAgent, httpsAgent |-> NoAgent]

NoResolution ==
    [called |-> FALSE, threw |-> FALSE, error |-> NoError, url |-> <<>>,
     parsed |-> InvalidURL, proxyUrl |-> <<>>, httpAgent |-> NoAgent, httpsAgent |-> NoAgent]

\* lines 32-56: the URL the agents are built from
ResolveUrl(proxyConfig) ==
    ApplyAuth(ApplyPort(ParseURL(WithScheme(CoerceUrl(proxyConfig.url))), proxyConfig.port),
              proxyConfig.username, proxyConfig.password)

Resolution(url, final, agents) ==
    [called |-> TRUE, threw |-> agents.threw, error |-> agents.error,
     url |-> url, parsed |-> final, proxyUrl |-> Serialize(final),
     httpAgent |-> agents.httpAgent, httpsAgent |-> agents.httpsAgent]

getAgentForProxy(proxyConfig) ==
    IF ~ParseURL(WithScheme(CoerceUrl(proxyConfig.url))).ok
    THEN [NoResolution EXCEPT !.called = TRUE, !.threw = TRUE,
             !.url = WithScheme(CoerceUrl(proxyConfig.url)),
             !.error = [name |-> "TypeError", message |-> InvalidUrlMessage]]
    ELSE Resolution(WithScheme(CoerceUrl(proxyConfig.url)),
                    ResolveUrl(proxyConfig),
                    SelectAgents(ResolveUrl(proxyConfig).protocol,
                                 Serialize(ResolveUrl(proxyConfig))))

-----------------------------------------------------------------------------
(* Proxy descriptors (AccountProxy) *)

Acc(url, port, username, password, proxyAxios) ==
    [url |-> url, port |-> port, username |-> username, password |-> password,
     proxyAxios |-> proxyAxios]

UrlEmpty     == <<>>
UrlBare      == <<"p","r","o","x","y",".","t","e","s","t">>
UrlBareIp    == <<"1","5","1",".","1","4","5",".","3","6",".","1","9","4">>
UrlBarePort  == <<"p","r","o","x","y",".","t","e","s","t",":","1","0","8","0">>
UrlHttp      == <<"h","t","t","p",":","/","/","p","r","o","x","y",".","t","e","s","t">>
UrlHttpPort  == <<"h","t","t","p",":","/","/","p","r","o","x","y",".","t","e","s","t",":","8","8","8","8">>
UrlHttpUpper == <<"H","T","T","P",":","/","/","P","r","o","x","y",".","T","e","s","t">>
UrlHttps     == <<"h","t","t","p","s",":","/","/","p","r","o","x","y",".","t","e","s","t">>
UrlSocks5    == <<"s","o","c","k","s","5",":","/","/","p","r","o","x","y",".","t","e","s","t",":","1","0","8","0">>
UrlSocks4a   == <<"s","o","c","k","s","4","a",":","/","/","p","r","o","x","y",".","t","e","s","t">>
UrlSocks6    == <<"s","o","c","k","s","6",":","/","/","p","r","o","x","y",".","t","e","s","t">>
UrlFtp       == <<"f","t","p",":","/","/","p","r","o","x","y",".","t","e","s","t">>
UrlNoSlashes == <<"h","t","t","p",":","p","r","o","x","y",".","t","e","s","t">>
UrlCreds     == <<"h","t","t","p",":","/","/","u",":","p","@","p","r","o","x","y",".","t","e","s","t",":","8","0","8","0">>
UrlSpace     == <<"b","a","d"," ","h","o","s","t">>
UrlWs        == <<"w","s",":","/","/","p","r","o","x","y",".","t","e","s","t">>
UrlSocks5h   == <<"s","o","c","k","s","5","h",":","/","/","p","r","o","x","y",".","t","e","s","t",":","1","0","8","0">>
UrlSocksBare == <<"s","o","c","k","s","5",":","/","/">>
ProxyUrls == { Undefined, UrlEmpty, UrlBare, UrlBareIp, UrlBarePort, UrlHttp,
              UrlHttpPort, UrlHttpUpper, UrlHttps, UrlSocks5, UrlSocks4a,
              UrlSocks6, UrlFtp, UrlNoSlashes, UrlCreds, UrlSpace,
              UrlWs, UrlSocks5h, UrlSocksBare }

ProxyPorts == {NoPort, 0, 8080, 3128, 443, 70000}

UserPlain   == <<"u","s","e","r">>
UserSpecial == <<"a","@","b">>
PassPlain   == <<"p","w">>
PassSpecial == <<"p",":","q">>

Usernames == {Undefined, <<>>, UserPlain, UserSpecial}
Passwords == {Undefined, PassPlain, PassSpecial}

\* every descriptor the constructor is tried on
AllAccounts ==
    { Acc(u, p, n, w, e) : u \in ProxyUrls, p \in ProxyPorts, n \in Usernames,
                           w \in Passwords, e \in BOOLEAN }

\* the descriptors of the clients that requests are issued on
Accounts ==
    { Acc(UrlHttp, 8080, UserPlain, PassPlain, TRUE),
      Acc(UrlBare, 8080, Undefined, Undefined, TRUE),
      Acc(UrlSocks5, NoPort, Undefined, Undefined, TRUE),
      Acc(UrlFtp, NoPort, Undefined, Undefined, TRUE),
      Acc(UrlHttp, 8080, UserPlain, PassPlain, FALSE),
      Acc(UrlEmpty, NoPort, Undefined, Undefined, TRUE) }

-----------------------------------------------------------------------------
(* Transport errors and their classification (the catch block of request) *)

\* JavaScript `undefined` for an error code
NoCode == "<undefined>"

NoCause == [present |-> FALSE, code |-> NoCode]
Cause(code) == [present |-> TRUE, code |-> code]

Err(code, cause, message) == [code |-> code, cause |-> cause, message |-> message]

\* faulty variant: e?.code ?? e?.cause?.code, an empty own code is kept
ErrorCode_NullishOnly(e) ==
    IF e.code # NoCode
    THEN e.code
    ELSE IF e.cause.present THEN e.cause.code ELSE NoCode

\* const code = e?.code || e?.cause?.code
ErrorCode(e) ==
    IF e.code # NoCode /\ e.code # ""
    THEN e.code
    ELSE IF e.cause.present THEN e.cause.code ELSE NoCode

NetCodes == {"ECONNREFUSED", "ETIMEDOUT", "ECONNRESET", "ENOTFOUND"}

\* faulty variant: ETIMEDOUT is left out of the comparison chain
isNetErr_WithoutTimedOut(code) == code \in {"ECONNREFUSED", "ECONNRESET", "ENOTFOUND"}

isNetErr(code) == code \in NetCodes

\* const msg = String(e?.message || '')
ErrorMessage(e) == IF TruthyStr(e.message) THEN e.message ELSE <<>>

ProxyPatterns == { <<"p","r","o","x","y">>,
                   <<"t","u","n","n","e","l">>,
                   <<"s","o","c","k","s">>,
                   <<"a","g","e","n","t">>,
                   <<"5","0","2">>,
                   <<"5","0","4">> }

\* faulty variant: the pattern without its i flag
looksLikeProxyIssue_CaseSensitive(msg) == \E p \in ProxyPatterns : Contains(msg, p)

\* /proxy|tunnel|socks|agent|502|504/i.test(msg)
looksLikeProxyIssue(msg) == \E p \in ProxyPatterns : Contains(ToLower(msg), p)

\* faulty variant: every failure of a non-bypass call is retried
ShouldRetry_AnyError(bypassProxy, e) == ~bypassProxy

\* if (!bypassProxy && (isNetErr || looksLikeProxyIssue))
ShouldRetry(bypassProxy, e) ==
    ~bypassProxy /\ (isNetErr(ErrorCode(e)) \/ looksLikeProxyIssue(ErrorMessage(e)))

MsgEmpty  == <<>>
MsgPlain  == <<"b","o","o","m">>
Msg404    == <<"s","t","a","t","u","s"," ","4","0","4">>
MsgProxy  == <<"P","r","o","x","y"," ","r","e","f","u","s","e","d">>
MsgTunnel == <<"T","U","N","N","E","L"," ","d","o","w","n">>
MsgSocks  == <<"a"," ","S","o","c","k","s","5"," ","x">>
MsgAgent  == <<"U","s","e","r","A","g","e","n","t">>
Msg502    == <<"s","t","a","t","u","s"," ","5","0","2">>
Msg504    == <<"5","0","4">>
MsgSplit  == <<"p","r","o"," ","x","y"," ","5","0"," ","4">>
Messages == { Undefined, MsgEmpty, MsgPlain, Msg404, MsgProxy, MsgTunnel,
              MsgSocks, MsgAgent, Msg502, Msg504, MsgSplit }

ErrorCodes == {NoCode, "", "ERR_BAD_REQUEST", "econnrefused"} \cup NetCodes

Causes == {NoCause, Cause(NoCode), Cause("ECONNRESET"), Cause("EPIPE"),
           Cause("ECONNREFUSED"), Cause("ETIMEDOUT"), Cause("ENOTFOUND")}

\* every error shape the owned client's attempt is failed with
AllErrors == { Err(c, k, m) : c \in ErrorCodes, k \in Causes, m \in Messages }

ErrRefused    == Err("ECONNREFUSED", NoCause, MsgPlain)
ErrCauseReset == Err(NoCode, Cause("ECONNRESET"), MsgPlain)
ErrProxyMsg   == Err("ERR_BAD_RESPONSE", NoCause, Msg502)
ErrOther      == Err("ERR_BAD_REQUEST", NoCause, Msg404)

\* the errors that attempts of concurrent calls, and retries, are failed with
Errors == {ErrRefused, ErrCauseReset, ErrProxyMsg, ErrOther}

Responses == {"response200"}

Configs == {"GET /a", "POST /b"}

-----------------------------------------------------------------------------
(* request(config, bypassProxy) *)

Pending == [kind |-> "pending", response |-> "", error |-> Err(NoCode, NoCause, Undefined)]
Fulfilled(r) == [Pending EXCEPT !.kind = "fulfilled", !.response = r]
Rejected(e)  == [Pending EXCEPT !.kind = "rejected", !.error = e]

\* the client objects a request is sent on: this.instance, or the instance that
\* the axios.create() of line 86 / line 106 returned to call c
Owned == [kind |-> "owned", call |-> 0, line |-> ""]
Bypass(c, line) == [kind |-> "bypass", call |-> c, line |-> line]

\* faulty variant: the bypass instance keeps axios' built-in proxy handling
BypassInstance_ProxyDefault == AxiosCreate

\* const bypassInstance = axios.create(); bypassInstance.defaults.proxy = false
BypassInstance == [AxiosCreate EXCEPT !.proxy = "disabled"]

\* <client>.request(config): one transport attempt, pending
Attempt(client, defaults, config) ==
    [client |-> client, defaults |-> defaults, config |-> config, result |-> Pending]

IdleCall ==
    [pc |-> "idle", config |-> "", bypassProxy |-> FALSE, attempts |-> <<>>,
     created |-> 0, outcome |-> Pending]

\* faulty variant: the bypassProxy branch is missing, the owned client is used
StartRequest_IgnoresBypass(c, inst, config, bypassProxy) ==
    [pc |-> "await92", config |-> config, bypassProxy |-> bypassProxy,
     attempts |-> <<Attempt(Owned, inst, config)>>,
     created |-> 0, outcome |-> Pending]

\* faulty variant: the bypass instance is created up front, before the try
StartRequest_EagerBypassInstance(c, inst, config, bypassProxy) ==
    IF bypassProxy
    THEN [pc |-> "await88", config |-> config, bypassProxy |-> TRUE,
          attempts |-> <<Attempt(Bypass(c, "86"), BypassInstance, config)>>,
          created |-> 1, outcome |-> Pending]
    ELSE [pc |-> "await92", config |-> config, bypassProxy |-> FALSE,
          attempts |-> <<Attempt(Owned, inst, config)>>,
          created |-> 1, outcome |-> Pending]

\* request() up to its first suspension: line 88 (bypass) or line 92
StartRequest(c, inst, config, bypassProxy) ==
    IF bypassProxy
    THEN [pc |-> "await88", config |-> config, bypassProxy |-> TRUE,
          attempts |-> <<Attempt(Bypass(c, "86"), BypassInstance, config)>>,
          created |-> 1, outcome |-> Pending]
    ELSE [pc |-> "await92", config |-> config, bypassProxy |-> FALSE,
          attempts |-> <<Attempt(Owned, inst, config)>>,
          created |-> 0, outcome |-> Pending]

Settle(call, result) ==
    [call EXCEPT !.attempts[Len(call.attempts)].result = result]

\* the pending attempt resolves: each of the three returns passes the response on
OnFulfilled(c, call, r) ==
    [Settle(call, Fulfilled(r)) EXCEPT !.pc = "done", !.outcome = Fulfilled(r)]

\* faulty variant: the fallback is taken only when the owned client has agents
Catch_OnlyWhenProxied(c, call, e) ==
    IF ShouldRetry(call.bypassProxy, e) /\ call.attempts[1].defaults.httpAgent # NoAgent
    THEN [call EXCEPT !.pc = "await108",
                      !.attempts = Append(@, Attempt(Bypass(c, "106"), BypassInstance,
                                                     call.config)),
                      !.created = @ + 1]
    ELSE [call EXCEPT !.pc = "done", !.outcome = Rejected(e)]

\* the catch block, lines 93-111, for an attempt awaited at line 92
Catch(c, call, e) ==
    IF ShouldRetry(call.bypassProxy, e)
    THEN [call EXCEPT !.pc = "await108",
                      !.attempts = Append(@, Attempt(Bypass(c, "106"), BypassInstance,
                                                     call.config)),
                      !.created = @ + 1]
    ELSE [call EXCEPT !.pc = "done", !.outcome = Rejected(e)]

\* faulty variant: a failed retry is caught and classified like a first failure
OnRejected_RetryAgain(c, call, e) ==
    IF call.pc \in {"await92", "await108"}
    THEN Catch(c, Settle(call, Rejected(e)), e)
    ELSE [Settle(call, Rejected(e)) EXCEPT !.pc = "done", !.outcome = Rejected(e)]

\* the pending attempt rejects: caught at line 92, passed on at lines 88 and 108
OnRejected(c, call, e) ==
    IF call.pc = "await92"
    THEN Catch(c, Settle(call, Rejected(e)), e)
    ELSE [Settle(call, Rejected(e)) EXCEPT !.pc = "done", !.outcome = Rejected(e)]

-----------------------------------------------------------------------------
(* The state machine *)

NoAccount == Acc(Undefined, NoPort, Undefined, Undefined, FALSE)

Init ==
    /\ clientState = "none"
    /\ account = NoAccount
    /\ instance = NoInstance
    /\ ctorError = NoError
    /\ resolverCalls = 0
    /\ resolved = NoResolution
    /\ calls = [c \in CallIds |-> IdleCall]

\* faulty variant: a failed resolution is swallowed, the client goes without agents
Constructor_SwallowsFailure(a) ==
    IF TruthyStr(a.url) /\ a.proxyAxios
    THEN IF getAgentForProxy(a).threw
         THEN [state |-> "ready", instance |-> [AxiosCreate EXCEPT !.proxy = "disabled"],
               error |-> NoError, resolverCalls |-> 1, resolved |-> getAgentForProxy(a)]
         ELSE [state |-> "ready",
               instance |-> [AxiosCreate EXCEPT !.proxy = "disabled",
                                                !.httpAgent = getAgentForProxy(a).httpAgent,
                                                !.httpsAgent = getAgentForProxy(a).httpsAgent],
               error |-> NoError, resolverCalls |-> 1, resolved |-> getAgentForProxy(a)]
    ELSE [state |-> "ready", instance |-> [AxiosCreate EXCEPT !.proxy = "disabled"],
          error |-> NoError, resolverCalls |-> 0, resolved |-> NoResolution]

\* faulty variant: the proxyAxios flag is not tested, only the URL
Constructor_IgnoresEnabledFlag(a) ==
    IF TruthyStr(a.url)
    THEN IF getAgentForProxy(a).threw
         THEN [state |-> "threw", instance |-> NoInstance,
               error |-> getAgentForProxy(a).error,
               resolverCalls |-> 1, resolved |-> getAgentForProxy(a)]
         ELSE [state |-> "ready",
               instance |-> [AxiosCreate EXCEPT !.proxy = "disabled",
                                                !.httpAgent = getAgentForProxy(a).httpAgent,
                                                !.httpsAgent = getAgentForProxy(a).httpsAgent],
               error |-> NoError, resolverCalls |-> 1, resolved |-> getAgentForProxy(a)]
    ELSE [state |-> "ready", instance |-> [AxiosCreate EXCEPT !.proxy = "disabled"],
          error |-> NoError, resolverCalls |-> 0, resolved |-> NoResolution]

\* faulty variant: the resolver is called once per agent field
Constructor_ResolvesTwice(a) ==
    IF TruthyStr(a.url) /\ a.proxyAxios
    THEN IF getAgentForProxy(a).threw
         THEN [state |-> "threw", instance |-> NoInstance,
               error |-> getAgentForProxy(a).error,
               resolverCalls |-> 1, resolved |-> getAgentForProxy(a)]
         ELSE [state |-> "ready",
               instance |-> [AxiosCreate EXCEPT !.proxy = "disabled",
                                                !.httpAgent = getAgentForProxy(a).httpAgent,
                                                !.httpsAgent = getAgentForProxy(a).httpsAgent],
               error |-> NoError, resolverCalls |-> 2, resolved |-> getAgentForProxy(a)]
    ELSE [state |-> "ready", instance |-> [AxiosCreate EXCEPT !.proxy = "disabled"],
          error |-> NoError, resolverCalls |-> 0, resolved |-> NoResolution]

\* the constructor's outcome: the new field values, or the error it throws
Constructor(a) ==
    LET created == [AxiosCreate EXCEPT !.proxy = "disabled"]
    IN  IF TruthyStr(a.url) /\ a.proxyAxios
        THEN LET agents == getAgentForProxy(a)
             IN  IF agents.threw
                 THEN [state |-> "threw", instance |-> NoInstance, error |-> agents.error,
                       resolverCalls |-> 1, resolved |-> agents]
                 ELSE [state |-> "ready",
                       instance |-> [created EXCEPT !.httpAgent = agents.httpAgent,
                                                    !.httpsAgent = agents.httpsAgent],
                       error |-> NoError, resolverCalls |-> 1, resolved |-> agents]
        ELSE [state |-> "ready", instance |-> created, error |-> NoError,
              resolverCalls |-> 0, resolved |-> NoResolution]

\* new AxiosClient(a)
Construct(a) ==
    /\ clientState = "none"
    /\ LET r == Constructor(a)
       IN  /\ clientState' = r.state
           /\ account' = a
           /\ instance' = r.instance
           /\ ctorError' = r.error
           /\ resolverCalls' = resolverCalls + r.resolverCalls
           /\ resolved' = r.resolved
    /\ UNCHANGED calls

\* client.request(config, bypassProxy) is called
Request(c, config, bypassProxy) ==
    /\ clientState = "ready"
    /\ calls[c].pc = "idle"
    /\ calls' = [calls EXCEPT ![c] = StartRequest(c, instance, config, bypassProxy)]
    /\ UNCHANGED <<clientState, account, instance, ctorError, resolverCalls, resolved>>

Awaiting(c) == calls[c].pc \in {"await88", "await92", "await108"}

\* the transport resolves call c's pending attempt with response r
TransportResolves(c, r) ==
    /\ Awaiting(c)
    /\ calls' = [calls EXCEPT ![c] = OnFulfilled(c, calls[c], r)]
    /\ UNCHANGED <<clientState, account, instance, ctorError, resolverCalls, resolved>>

\* the transport rejects call c's pending attempt with error e
TransportRejects(c, e) ==
    /\ Awaiting(c)
    /\ calls' = [calls EXCEPT ![c] = OnRejected(c, calls[c], e)]
    /\ UNCHANGED <<clientState, account, instance, ctorError, resolverCalls, resolved>>

\* Spec: one client, concurrent calls
NewClient == \E a \in Accounts : Construct(a)
CallRequest == \E c \in CallIds, cfg \in Configs, b \in BOOLEAN : Request(c, cfg, b)
AttemptSucceeds == \E c \in CallIds, r \in Responses : TransportResolves(c, r)
AttemptFails == \E c \in CallIds, e \in Errors : TransportRejects(c, e)

Next == NewClient \/ CallRequest \/ AttemptSucceeds \/ AttemptFails

Spec == Init /\ [][Next]_vars

\* SpecErrors: one call at a time on one client, its owned attempt failed with
\* every error shape
FirstCall == CHOOSE c \in CallIds : \A d \in CallIds : c <= d

OneRequest == \E cfg \in Configs, b \in BOOLEAN : Request(FirstCall, cfg, b)
OneSucceeds == \E r \in Responses : TransportResolves(FirstCall, r)
OneFails ==
    \E e \in AllErrors :
        /\ calls[FirstCall].pc # "await92" => e \in Errors
        /\ TransportRejects(FirstCall, e)

NextErrors == NewClient \/ OneRequest \/ OneSucceeds \/ OneFails

SpecErrors == Init /\ [][NextErrors]_vars

\* SpecConstruct: the constructor on every descriptor
AnyClient == \E a \in AllAccounts : Construct(a)

NextConstruct == AnyClient

SpecConstruct == Init /\ [][NextConstruct]_vars

-----------------------------------------------------------------------------
(* Properties *)

Started(c)   == calls[c].pc # "idle"
Done(c)      == calls[c].pc = "done"
Attempts(c)  == calls[c].attempts
FirstError(c) == Attempts(c)[1].result.error

\* call c's first attempt was made on the owned client and has failed
OwnedAttemptFailed(c) ==
    /\ Started(c)
    /\ ~calls[c].bypassProxy
    /\ Attempts(c)[1].result.kind = "rejected"

\* attempt i of call c went out on a client object no other attempt has used
FreshClient(c, i) ==
    \A d \in CallIds : \A j \in DOMAIN Attempts(d) :
        (d # c \/ j # i) => Attempts(d)[j].client # Attempts(c)[i].client

\* attempt i of call c went out on a client created by request(), with built-in
\* proxy handling off and no agents
OnBypassClient(c, i) ==
    /\ Attempts(c)[i].client.kind = "bypass"
    /\ Attempts(c)[i].defaults.proxy = "disabled"
    /\ Attempts(c)[i].defaults.httpAgent = NoAgent
    /\ Attempts(c)[i].defaults.httpsAgent = NoAgent

\* call c was retried once, and its state is the retry's: pending while the
\* retry is, then settled with exactly the retry's result
RetriedOnce(c) ==
    /\ Len(Attempts(c)) = 2
    /\ OnBypassClient(c, 2)
    /\ FreshClient(c, 2)
    /\ Attempts(c)[2].config = Attempts(c)[1].config
    /\ Attempts(c)[2].config = calls[c].config
    /\ IF Attempts(c)[2].result.kind = "pending"
       THEN calls[c].pc = "await108" /\ calls[c].outcome = Pending
       ELSE Done(c) /\ calls[c].outcome = Attempts(c)[2].result

\* call c was not retried: it is over, rejected with its first attempt's error
NotRetried(c) ==
    /\ Len(Attempts(c)) = 1
    /\ calls[c].created = 0
    /\ Done(c)
    /\ calls[c].outcome = Attempts(c)[1].result

\* word occurs in msg, letters compared without regard to case
MentionsAnyCase(msg, word) ==
    /\ msg # Undefined
    /\ \E i \in 1..Len(msg) :
           /\ i + Len(word) - 1 <= Len(msg)
           /\ \A j \in 1..Len(word) : ToLowerChar(msg[i + j - 1]) = ToLowerChar(word[j])

ProxyWords == { <<"p","r","o","x","y">>,
                <<"t","u","n","n","e","l">>,
                <<"s","o","c","k","s">>,
                <<"a","g","e","n","t">>,
                <<"5","0","2">>,
                <<"5","0","4">> }

MentionsProxyWord(msg) == \E w \in ProxyWords : MentionsAnyCase(msg, w)

\* C1: a request(config, bypassProxy=false) call makes at most two transport
\* attempts, at most one on the owned client and at most one on a bypass client;
\* when the bypass retry fails the call is over, rejected with the retry's own
\* error, whatever that error's classification would be.
C1_AtMostTwoAttempts ==
    \A c \in CallIds :
        (Started(c) /\ ~calls[c].bypassProxy) =>
            /\ Len(Attempts(c)) <= 2
            /\ Cardinality({i \in DOMAIN Attempts(c) : Attempts(c)[i].client.kind = "owned"}) <= 1
            /\ Cardinality({i \in DOMAIN Attempts(c) : Attempts(c)[i].client.kind = "bypass"}) <= 1
            /\ calls[c].created <= 1
            /\ (Len(Attempts(c)) >= 2 /\ Attempts(c)[2].result.kind = "rejected") =>
                   /\ Done(c)
                   /\ Len(Attempts(c)) = 2
                   /\ calls[c].outcome = Attempts(c)[2].result

\* a retry has failed with an error that is itself network-classified
C1_Witness ==
    \E c \in CallIds :
        /\ OwnedAttemptFailed(c)
        /\ Len(Attempts(c)) = 2
        /\ Attempts(c)[2].result = Rejected(ErrRefused)
        /\ Done(c)

\* C2: when the owned client's attempt fails with an error whose code is
\* ECONNREFUSED, ETIMEDOUT, ECONNRESET or ENOTFOUND, exactly one retry of the same
\* configuration is made on a fresh proxy-disabled client without agents, and the
\* call's outcome is that retry's outcome.
C2_NetCodeRetriesOnce ==
    \A c \in CallIds :
        (OwnedAttemptFailed(c)
         /\ FirstError(c).code \in {"ECONNREFUSED", "ETIMEDOUT", "ECONNRESET", "ENOTFOUND"})
            => RetriedOnce(c)

C2_Witness ==
    \E c \in CallIds :
        /\ OwnedAttemptFailed(c)
        /\ FirstError(c).code = "ETIMEDOUT"
        /\ ~MentionsProxyWord(FirstError(c).message)
        /\ instance.httpAgent # NoAgent
        /\ Done(c)
        /\ calls[c].outcome.kind = "fulfilled"

\* C3: when the owned client's attempt fails with an error that carries no
\* recognized network code (neither its own nor its cause's) and whose message
\* mentions none of the proxy words, no second attempt is made and the call
\* rejects with that error unchanged.
C3_OtherErrorPropagates ==
    \A c \in CallIds :
        (/\ OwnedAttemptFailed(c)
         /\ FirstError(c).code \notin NetCodes
         /\ FirstError(c).cause.code \notin NetCodes
         /\ ~MentionsProxyWord(FirstError(c).message))
            => NotRetried(c)

C3_Witness ==
    \E c \in CallIds :
        /\ OwnedAttemptFailed(c)
        /\ FirstError(c) = Err("ERR_BAD_REQUEST", Cause("EPIPE"), Msg404)
        /\ Done(c)
        /\ calls[c].outcome = Rejected(Err("ERR_BAD_REQUEST", Cause("EPIPE"), Msg404))

\* C4: a request(config, bypassProxy=true) call makes exactly one transport
\* attempt, on a fresh client with built-in proxy handling off and no agents;
\* the owned client is not used, and a failure of the attempt ends the call
\* with that error, whatever its code or message.
C4_BypassIsSingleDirectAttempt ==
    \A c \in CallIds :
        (Started(c) /\ calls[c].bypassProxy) =>
            /\ Len(Attempts(c)) = 1
            /\ calls[c].created = 1
            /\ OnBypassClient(c, 1)
            /\ FreshClient(c, 1)
            /\ Attempts(c)[1].config = calls[c].config
            /\ IF Attempts(c)[1].result.kind = "pending"
               THEN calls[c].pc = "await88" /\ calls[c].outcome = Pending
               ELSE Done(c) /\ calls[c].outcome = Attempts(c)[1].result

\* a bypassing call on a client that has agents bound failed with a
\* network-classified error and was not retried
C4_Witness ==
    \E c \in CallIds :
        /\ calls[c].bypassProxy
        /\ instance.httpAgent # NoAgent
        /\ Done(c)
        /\ calls[c].outcome = Rejected(ErrRefused)
        /\ Len(Attempts(c)) = 1

\* C5: when the owned client's attempt fails with an error whose message
\* mentions, in any letter case, proxy, tunnel, socks, agent, 502 or 504, the
\* single bypass retry is made, whatever the error's code.
C5_ProxyWordRetriesOnce ==
    \A c \in CallIds :
        (OwnedAttemptFailed(c) /\ MentionsProxyWord(FirstError(c).message))
            => RetriedOnce(c)

\* an application error whose message merely contains "agent" was retried
C5_Witness ==
    \E c \in CallIds :
        /\ OwnedAttemptFailed(c)
        /\ FirstError(c) = Err("ERR_BAD_REQUEST", NoCause, MsgAgent)
        /\ Len(Attempts(c)) = 2
        /\ Done(c)

\* the descriptor asks for a proxy: proxying enabled and a non-empty host/URL
WantsProxy(a) == a.proxyAxios /\ a.url # Undefined /\ a.url # <<>>

AgentsBound(inst) == inst.httpAgent # NoAgent /\ inst.httpsAgent # NoAgent
NoAgentsBound(inst) == inst.httpAgent = NoAgent /\ inst.httpsAgent = NoAgent

\* C6: when resolving the agent pair fails for a descriptor that asks for a
\* proxy, construction throws that error and produces no client; a client that
\* was produced for such a descriptor has both agents bound.
C6_ResolutionFailureIsFatal ==
    /\ (WantsProxy(account) /\ resolved.threw) =>
           /\ clientState = "threw"
           /\ ctorError = resolved.error
           /\ ctorError # NoError
           /\ instance = NoInstance
    /\ (WantsProxy(account) /\ clientState # "none") =>
           /\ resolved.called
           /\ clientState = "ready" => (~resolved.threw /\ AgentsBound(instance))

C6_Witness ==
    /\ WantsProxy(account)
    /\ account.url = UrlFtp
    /\ clientState = "threw"
    /\ ctorError.message = UnsupportedMessage \o FtpScheme \o <<":">>

\* C7: a constructed client has forwardAgent/tunnelAgent (httpAgent/httpsAgent)
\* bound iff the descriptor has proxying enabled and a non-empty host/URL;
\* otherwise the resolver is not invoked, no agent is bound and construction
\* succeeds.
C7_AgentsBoundIffProxyWanted ==
    /\ clientState = "ready" =>
           /\ AgentsBound(instance) <=> WantsProxy(account)
           /\ AgentsBound(instance) =>
                  /\ instance.httpAgent = resolved.httpAgent
                  /\ instance.httpsAgent = resolved.httpsAgent
           /\ AgentsBound(instance) \/ NoAgentsBound(instance)
    /\ (clientState # "none" /\ ~WantsProxy(account)) =>
           /\ resolverCalls = 0
           /\ ~resolved.called
           /\ clientState = "ready"
           /\ NoAgentsBound(instance)

\* proxying disabled although a usable URL is set: no agents, resolver not run
C7_Witness ==
    /\ clientState = "ready"
    /\ account.url = UrlHttp
    /\ ~account.proxyAxios
    /\ resolverCalls = 0
    /\ NoAgentsBound(instance)

HttpsProtocol == HttpsScheme \o <<":">>

\* the resolver returned a pair for a proxy URL of scheme https:
ResolvedHttps == resolved.called /\ ~resolved.threw /\ resolved.parsed.protocol = HttpsProtocol

\* C8, as claimed: for a proxy URL of scheme https: the pair's forwardAgent and
\* tunnelAgent are the same HTTPS-proxy agent.
C8_Original_SameAgent ==
    ResolvedHttps =>
        /\ resolved.httpAgent.kind = "HttpsProxyAgent"
        /\ resolved.httpAgent = resolved.httpsAgent

\* C8, amended: for a proxy URL of scheme https: (a bare host defaulted to https
\* included) forwardAgent and tunnelAgent are both HTTPS-proxy agents built from
\* the same canonical proxy URL, and they are two distinct instances.
C8_TwoHttpsAgents ==
    ResolvedHttps =>
        /\ resolved.httpAgent.kind = "HttpsProxyAgent"
        /\ resolved.httpsAgent.kind = "HttpsProxyAgent"
        /\ resolved.httpAgent.proxy = resolved.proxyUrl
        /\ resolved.httpsAgent.proxy = resolved.proxyUrl
        /\ resolved.httpAgent.id # resolved.httpsAgent.id
        /\ instance.httpAgent = resolved.httpAgent
        /\ instance.httpsAgent = resolved.httpsAgent

C8_Witness ==
    /\ ResolvedHttps
    /\ account.url = UrlBareIp
    /\ clientState = "ready"

\* resolve({url: "proxy.test", port: 8080}) has returned
ResolvedBareHost8080 ==
    /\ resolved.called
    /\ account.url = UrlBare
    /\ account.port = 8080
    /\ account.username = Undefined
    /\ account.password = Undefined

\* C9, as claimed: resolve({url: "proxy.test", port: 8080}) returns a
\* plain-HTTP-proxy forwardAgent and an HTTPS/CONNECT tunnelAgent, two distinct
\* instances.
C9_Original_HttpPair ==
    ResolvedBareHost8080 =>
        /\ ~resolved.threw
        /\ resolved.httpAgent.kind = "HttpProxyAgent"
        /\ resolved.httpsAgent.kind = "HttpsProxyAgent"
        /\ resolved.httpAgent # resolved.httpsAgent

\* C9, amended: resolve({url: "proxy.test", port: 8080}) returns a forwardAgent
\* and a tunnelAgent that are both HTTPS-proxy agents for
\* https://proxy.test:8080/, the two being distinct instances.
C9_BareHostGetsHttpsPair ==
    ResolvedBareHost8080 =>
        /\ ~resolved.threw
        /\ resolved.proxyUrl = <<"h","t","t","p","s",":","/","/","p","r","o","x","y",".","t","e","s","t",":","8","0","8","0","/">>
        /\ resolved.httpAgent.kind = "HttpsProxyAgent"
        /\ resolved.httpsAgent.kind = "HttpsProxyAgent"
        /\ resolved.httpAgent.proxy = resolved.proxyUrl
        /\ resolved.httpsAgent.proxy = resolved.proxyUrl
        /\ resolved.httpAgent # resolved.httpsAgent

C9_Witness == ResolvedBareHost8080 /\ clientState = "ready"

\* the descriptor's host/URL as a string, and whether it starts with scheme://
GivenUrl == IF account.url = Undefined THEN <<>> ELSE account.url

SchemeEnd(url) ==
    CHOOSE k \in 0..Len(url) :
        \/ k = 0 /\ \A i \in DOMAIN url : url[i] # ":"
        \/ k > 0 /\ url[k] = ":" /\ \A i \in 1..(k-1) : url[i] # ":"

HasExplicitScheme(url) ==
    /\ SchemeEnd(url) > 1
    /\ Len(url) >= SchemeEnd(url) + 2
    /\ url[SchemeEnd(url) + 1] = "/"
    /\ url[SchemeEnd(url) + 2] = "/"
    /\ IsAlpha(url[1])
    /\ \A i \in 2..(SchemeEnd(url) - 1) : IsSchemeChar(url[i])

ExplicitScheme(url) == SubSeq(url, 1, SchemeEnd(url) - 1)

\* the resolver got as far as a parsed proxy URL
HasResolvedUrl == resolved.called /\ resolved.parsed.ok

\* C10: a host/URL without a scheme:// prefix resolves to a proxy URL of scheme
\* https; a host/URL with an explicit scheme:// prefix resolves to a proxy URL of
\* that scheme (in lower case), and to https only if that scheme is https.
C10_SchemeDefaultedOrKept ==
    HasResolvedUrl =>
        IF HasExplicitScheme(GivenUrl)
        THEN /\ resolved.parsed.protocol = ToLower(ExplicitScheme(GivenUrl)) \o <<":">>
             /\ StartsWith(resolved.proxyUrl, ToLower(ExplicitScheme(GivenUrl)) \o <<":", "/", "/">>)
             /\ (ToLower(ExplicitScheme(GivenUrl)) # HttpsScheme
                    => resolved.parsed.protocol # HttpsProtocol)
        ELSE /\ resolved.parsed.protocol = HttpsProtocol
             /\ StartsWith(resolved.proxyUrl, HttpsScheme \o <<":", "/", "/">>)

\* an explicit socks5:// scheme was kept
C10_Witness ==
    /\ HasResolvedUrl
    /\ account.url = UrlSocks5
    /\ resolved.parsed.protocol = SocksPrefix \o <<"5", ":">>

\* the scheme of the resolved proxy URL, without its colon
ResolvedScheme == SchemeOf(resolved.parsed)

\* C11: for a proxy URL whose scheme is neither http nor https and does not
\* start with socks, the resolver fails with the error
\* "Unsupported proxy protocol: <scheme>:" and returns no pair; and whatever the
\* descriptor, the resolver either returns a pair with both agents or fails
\* with neither.
C11_UnsupportedSchemeFails ==
    /\ (/\ HasResolvedUrl
        /\ ResolvedScheme \notin {HttpScheme, HttpsScheme}
        /\ ~StartsWith(ResolvedScheme, SocksPrefix)) =>
           /\ resolved.threw
           /\ resolved.error.name = "Error"
           /\ resolved.error.message = 
               <<"U","n","s","u","p","p","o","r","t","e","d"," ","p","r","o","x","y"," ","p","r","o","t","o","c","o","l",":"," ">> \o ToLower(ExplicitScheme(GivenUrl)) \o <<":">>
           /\ NoAgentsBound(resolved)
           /\ clientState = "threw"
           /\ ctorError = resolved.error
    /\ resolved.called =>
           IF resolved.threw
           THEN NoAgentsBound(resolved) /\ NoAgentsBound(instance)
           ELSE AgentsBound(resolved) /\ AgentsBound(instance)

\* ws://proxy.test was refused, the error naming ws:
C11_Witness ==
    /\ HasResolvedUrl
    /\ account.url = UrlWs
    /\ resolved.threw
    /\ resolved.error.message = UnsupportedMessage \o WsScheme \o <<":">>

\* the socks variants that the claim lists
ListedSocksSchemes == { <<"s","o","c","k","s","4">>, <<"s","o","c","k","s","4","a">>,
                        <<"s","o","c","k","s","5">>, <<"s","o","c","k","s","5","h">> }

\* C12: for a proxy URL whose scheme starts with socks the pair the resolver
\* returns holds one SOCKS agent, built from the resolved proxy URL, as both
\* forwardAgent and tunnelAgent; for socks4, socks4a, socks5 and socks5h (and a
\* URL with a host) the resolver does return a pair.
C12_OneSocksAgentForBoth ==
    /\ (HasResolvedUrl /\ ~resolved.threw /\ StartsWith(ResolvedScheme, SocksPrefix)) =>
           /\ resolved.httpAgent.kind = "SocksProxyAgent"
           /\ resolved.httpAgent = resolved.httpsAgent
           /\ Cardinality({resolved.httpAgent.id, resolved.httpsAgent.id}) = 1
           /\ resolved.httpAgent.proxy = resolved.proxyUrl
           /\ instance.httpAgent = resolved.httpAgent
           /\ instance.httpsAgent = resolved.httpAgent
    /\ (/\ HasResolvedUrl
        /\ ResolvedScheme \in ListedSocksSchemes
        /\ Len(resolved.parsed.hostname) > 0) =>
           ~resolved.threw /\ AgentsBound(resolved)

C12_Witness ==
    /\ HasResolvedUrl
    /\ account.url = UrlSocks5h
    /\ clientState = "ready"
    /\ resolved.httpAgent.kind = "SocksProxyAgent"

\* C13: for a proxy URL whose scheme is http: the resolver returns a
\* plain-HTTP-proxy forwardAgent and an HTTPS-via-CONNECT tunnelAgent, two
\* distinct instances, both built from the one canonical proxy URL.
C13_HttpPair ==
    (HasResolvedUrl /\ ResolvedScheme = HttpScheme) =>
        /\ ~resolved.threw
        /\ resolved.httpAgent.kind = "HttpProxyAgent"
        /\ resolved.httpsAgent.kind = "HttpsProxyAgent"
        /\ resolved.httpAgent.id # resolved.httpsAgent.id
        /\ resolved.httpAgent.proxy = resolved.httpsAgent.proxy
        /\ resolved.httpAgent.proxy = resolved.proxyUrl
        /\ StartsWith(resolved.proxyUrl, HttpScheme \o <<":", "/", "/">>)
        /\ instance.httpAgent = resolved.httpAgent
        /\ instance.httpsAgent = resolved.httpsAgent

C13_Witness ==
    /\ HasResolvedUrl
    /\ account.url = UrlHttpUpper
    /\ account.port = 3128
    /\ clientState = "ready"
    /\ resolved.httpAgent.kind = "HttpProxyAgent"

\* the port the resolved proxy URL designates: its own, or its scheme's default
EffectivePort ==
    IF resolved.parsed.port = NoPort
    THEN DefaultPort(ResolvedScheme)
    ELSE resolved.parsed.port

\* the proxy URL as parsed from the descriptor's host/URL alone
UrlAsGiven == ParseURL(resolved.url)

ResolvedHasHost == Len(resolved.parsed.hostname) > 0

\* C14, as claimed: whenever the descriptor supplies a port, the resolved proxy
\* URL's port is that port.
C14_Original_SuppliedPortWins ==
    (HasResolvedUrl /\ account.port # NoPort) => EffectivePort = account.port

\* C14, amended: when the descriptor supplies a port from 1 to 65535 and the
\* proxy URL has a host, the resolved URL's port is that port, whatever port the
\* URL embeds (the scheme's default port is left out of the URL text); a
\* supplied port of 0 or above 65535, or a URL without host, leaves the URL the
\* port it had.
C14_ValidPortWins ==
    (HasResolvedUrl /\ account.port # NoPort) =>
        IF account.port \in 1..65535 /\ ResolvedHasHost
        THEN /\ EffectivePort = account.port
             /\ resolved.parsed.port \in {account.port, NoPort}
             /\ resolved.parsed.port = NoPort <=> account.port = DefaultPort(ResolvedScheme)
             /\ resolved.parsed.port # NoPort =>
                    Contains(resolved.proxyUrl,
                             resolved.parsed.hostname \o <<":">> \o ToDigits(account.port))
        ELSE resolved.parsed.port = UrlAsGiven.port

\* http://proxy.test:8888 with port 3128 resolved to port 3128
C14_Witness ==
    /\ HasResolvedUrl
    /\ account.url = UrlHttpPort
    /\ account.port = 3128
    /\ resolved.parsed.port = 3128
    /\ UrlAsGiven.port = 8888

\* the character a %XX escape of the userinfo encoding stands for
PercentDecodeChar(hex) ==
    CASE hex = <<"4","0">> -> "@"
      [] hex = <<"3","A">> -> ":"
      [] hex = <<"2","F">> -> "/"
      [] hex = <<"2","0">> -> " "
      [] hex = <<"2","3">> -> "#"
      [] hex = <<"3","F">> -> "?"
      [] OTHER             -> "%"

RECURSIVE PercentDecode(_)
PercentDecode(s) ==
    IF Len(s) = 0 THEN <<>>
    ELSE IF Head(s) = "%" /\ Len(s) >= 3
         THEN <<PercentDecodeChar(SubSeq(s, 2, 3))>> \o PercentDecode(SubSeq(s, 4, Len(s)))
         ELSE <<Head(s)>> \o PercentDecode(Tail(s))

HasUsername == account.username # Undefined /\ account.username # <<>>

GivenPassword ==
    IF account.password = Undefined THEN <<>> ELSE account.password

\* the resolved URL carries the descriptor's username and password
CarriesGivenCredentials ==
    /\ PercentDecode(resolved.parsed.username) = account.username
    /\ PercentDecode(resolved.parsed.password) = GivenPassword
    /\ StartsWith(resolved.proxyUrl,
                  resolved.parsed.protocol \o <<"/", "/">> \o resolved.parsed.username
                  \o (IF Len(GivenPassword) > 0
                      THEN <<":">> \o resolved.parsed.password ELSE <<>>)
                  \o <<"@">>)

\* the resolved URL has the credentials of the host/URL field, if any, and no other
KeepsUrlCredentials ==
    /\ resolved.parsed.username = UrlAsGiven.username
    /\ resolved.parsed.password = UrlAsGiven.password

\* C15, as claimed: with a non-empty username the resolved proxy URL carries
\* that username and the descriptor's password (empty when none is set); with
\* an absent or empty username no credentials are injected.
C15_Original_CredentialsInjected ==
    HasResolvedUrl =>
        IF HasUsername THEN CarriesGivenCredentials ELSE KeepsUrlCredentials

\* C15, amended: the same, for a proxy URL that has a host; a proxy URL without
\* a host (socks5://) takes no credentials at all.
C15_CredentialsInjectedWithHost ==
    HasResolvedUrl =>
        IF HasUsername /\ ResolvedHasHost
        THEN CarriesGivenCredentials
        ELSE KeepsUrlCredentials

\* username a@b without password replaced the credentials u:p of the URL
C15_Witness ==
    /\ HasResolvedUrl
    /\ account.url = UrlCreds
    /\ account.username = UserSpecial
    /\ account.password = Undefined
    /\ resolved.parsed.username = <<"a", "%", "4", "0", "b">>
    /\ resolved.parsed.password = <<>>

\* the results of call c's attempts, in order
ResultsOf(c) == [i \in DOMAIN Attempts(c) |-> Attempts(c)[i].result]

\* what holds of a constructed client whatever its calls have done
ClientAsConstructed ==
    clientState = "ready" =>
        /\ resolverCalls = (IF WantsProxy(account) THEN 1 ELSE 0)
        /\ resolved.called <=> WantsProxy(account)
        /\ instance.proxy = "disabled"
        /\ instance.httpAgent = resolved.httpAgent
        /\ instance.httpsAgent = resolved.httpsAgent
        /\ \A c \in CallIds : \A i \in DOMAIN Attempts(c) :
               Attempts(c)[i].client = Owned => Attempts(c)[i].defaults = instance

\* a call's state is a function of its own arguments and attempts' results
OutcomeFromOwnAttempts ==
    /\ \A c \in CallIds :
           Done(c) => calls[c].outcome = Attempts(c)[Len(Attempts(c))].result
    /\ \A c, d \in CallIds :
           (/\ calls[c].bypassProxy = calls[d].bypassProxy
            /\ Started(c) /\ Started(d)
            /\ ResultsOf(c) = ResultsOf(d)) =>
               /\ calls[c].pc = calls[d].pc
               /\ calls[c].outcome = calls[d].outcome

\* C16: the agent pair is computed once, at construction; no step of any
\* request call, in any interleaving, changes the owned client's agents or its
\* proxy setting; a step of one call leaves every other call as it was, and a
\* call's outcome is the result of its own last attempt.
C16_AgentsFixedCallsIndependent ==
    /\ [](ClientAsConstructed /\ OutcomeFromOwnAttempts)
    /\ [][clientState = "ready" =>
              /\ clientState' = "ready"
              /\ instance' = instance
              /\ resolved' = resolved
              /\ resolverCalls' = resolverCalls
              /\ account' = account]_vars
    /\ [][\A c \in CallIds :
              calls'[c] # calls[c] => \A d \in CallIds \ {c} : calls'[d] = calls[d]]_vars

\* on a client with agents, one call has fallen back and waits for its retry
\* while another has already ended differently
C16_Witness ==
    /\ AgentsBound(instance)
    /\ \E c, d \in CallIds :
           /\ c # d
           /\ calls[c].pc = "await108"
           /\ Done(d)
           /\ Len(Attempts(d)) = 2
           /\ calls[d].outcome.kind = "fulfilled"

\* C17: every client a request is sent on has the built-in proxy handling
\* disabled; every bypass client has no agents and carries exactly one request.
C17_ProxyHandlingOffEverywhere ==
    /\ clientState = "ready" => instance.proxy = "disabled"
    /\ \A c \in CallIds : \A i \in DOMAIN Attempts(c) :
           /\ Attempts(c)[i].defaults.proxy = "disabled"
           /\ Attempts(c)[i].client.kind = "bypass" =>
                  /\ NoAgentsBound(Attempts(c)[i].defaults)
                  /\ FreshClient(c, i)
                  /\ Attempts(c)[i].client.call = c
    /\ \A c \in CallIds :
           calls[c].created =
               Cardinality({i \in DOMAIN Attempts(c) : Attempts(c)[i].client.kind = "bypass"})

\* bypass clients of both kinds have been used, next to the owned client
C17_Witness ==
    \E c, d \in CallIds :
        /\ c # d
        /\ Done(c) /\ Done(d)
        /\ Len(Attempts(c)) = 2
        /\ Attempts(c)[2].client = Bypass(c, "106")
        /\ Attempts(d)[1].client = Bypass(d, "86")

\* C18: when the owned client's attempt succeeds the call returns that response
\* with no bypass client created and no second attempt; a second attempt exists
\* only after the first, made on the owned client, has failed.
C18_SuccessReturnsNoRetry ==
    \A c \in CallIds :
        /\ (/\ Started(c)
            /\ ~calls[c].bypassProxy
            /\ Attempts(c)[1].result.kind = "fulfilled") =>
               /\ Done(c)
               /\ calls[c].outcome = Attempts(c)[1].result
               /\ Len(Attempts(c)) = 1
               /\ calls[c].created = 0
        /\ (Started(c) /\ ~calls[c].bypassProxy /\ Attempts(c)[1].result.kind = "pending") =>
               /\ Len(Attempts(c)) = 1
               /\ calls[c].created = 0
               /\ Attempts(c)[1].client = Owned
        /\ Len(Attempts(c)) >= 2 =>
               /\ Attempts(c)[1].client = Owned
               /\ Attempts(c)[1].result.kind = "rejected"

C18_Witness ==
    \E c \in CallIds :
        /\ ~calls[c].bypassProxy
        /\ Done(c)
        /\ Attempts(c)[1].result.kind = "fulfilled"
        /\ calls[c].outcome.kind = "fulfilled"
        /\ AgentsBound(instance)

\* error e is one the catch block is meant to fall back on
NetworkOrProxyError(e) ==
    \/ e.code \in NetCodes
    \/ (e.code \in {NoCode, ""} /\ e.cause.code \in NetCodes)
    \/ MentionsProxyWord(e.message)

\* C19: on a client without agents a non-bypass call whose direct attempt fails
\* with a network- or proxy-classified error is retried all the same, on a
\* bypass client: the same configuration goes out directly twice.
C19_FallbackWithoutAgents ==
    \A c \in CallIds :
        (/\ OwnedAttemptFailed(c)
         /\ NoAgentsBound(instance)
         /\ NetworkOrProxyError(FirstError(c))) =>
            /\ RetriedOnce(c)
            /\ NoAgentsBound(Attempts(c)[1].defaults)
            /\ Attempts(c)[1].defaults = Attempts(c)[2].defaults
            /\ Attempts(c)[1].config = Attempts(c)[2].config

C19_Witness ==
    \E c \in CallIds :
        /\ ~account.proxyAxios
        /\ NoAgentsBound(instance)
        /\ OwnedAttemptFailed(c)
        /\ FirstError(c) = ErrProxyMsg
        /\ Len(Attempts(c)) = 2
        /\ Done(c)

\* C20: the classified code is the error's own code when that is non-empty and
\* the cause's code otherwise: without own code, a cause code among the network
\* codes triggers the retry; with an unrecognized own code the cause code is
\* not looked at, and the call is retried only for a proxy-like message.
C20_CauseCodeOnlyWithoutOwnCode ==
    \A c \in CallIds :
        OwnedAttemptFailed(c) =>
            /\ (FirstError(c).code \in {NoCode, ""} /\ FirstError(c).cause.code \in NetCodes)
                   => RetriedOnce(c)
            /\ (FirstError(c).code \notin {NoCode, ""} /\ FirstError(c).code \notin NetCodes) =>
                   IF MentionsProxyWord(FirstError(c).message)
                   THEN RetriedOnce(c)
                   ELSE NotRetried(c)

\* an unrecognized own code hid the cause's ECONNRESET: no retry
C20_Witness ==
    \E c \in CallIds :
        /\ OwnedAttemptFailed(c)
        /\ FirstError(c) = Err("econnrefused", Cause("ECONNRESET"), MsgPlain)
        /\ Done(c)
        /\ Len(Attempts(c)) = 1

====
